---- MODULE Spec2Model ----
(***************************************************************************)
(* A model of the YotpoReviews web component (src/assets/yotpo-reviews.js). *)
(*                                                                         *)
(* Every component instance is a record of its private fields, its host    *)
(* attributes, its listing requests in flight and what it has rendered.     *)
(* The instances of one page share the browser's local-storage entry       *)
(* 'yotpo-voted-reviews' and the document's keydown listeners.  Methods of  *)
(* the class are operators from a component record to a component record,  *)
(* so that a handler that calls #fetchReviews, #render or #renderError is   *)
(* the composition of those operators; the actions of Next are the events   *)
(* the browser delivers: lifecycle callbacks, dispatched user actions,      *)
(* attribute changes by the host, and the settling of fetch promises.       *)
(*                                                                         *)
(* The two pure algorithms, #renderStars and #generatePageNumbers, are      *)
(* operators; SpecStars and SpecPages apply them to every input of a        *)
(* bounded grid.  Ratings are held in hundredths of a star (380 is 3.8) and *)
(* compared exactly, so a result that hinges on the binary rounding of a    *)
(* decimal (2.3 - 2 < 0.3 in IEEE doubles) is outside what is modelled.     *)
(***************************************************************************)
EXTENDS Integers, Sequences, FiniteSets, TLC

VARIABLES
    comp,       \* instance -> component record (private fields, attributes, requests, DOM)
    storage,    \* the local-storage entry 'yotpo-voted-reviews': <<>> or <<value>>
    keydown,    \* the document's keydown listeners installed by openImageModal, in order
    rating,     \* SpecStars: the rating handed to #renderStars, in hundredths
    stars,      \* SpecStars: <<>> or <<what #renderStars emitted>>
    current,    \* SpecPages: the current page handed to #generatePageNumbers
    total,      \* SpecPages: the number of pages handed to #generatePageNumbers
    pages       \* SpecPages: <<>> or <<the window #generatePageNumbers returned>>

vars == <<comp, storage, keydown, rating, stars, current, total, pages>>

----------------------------------------------------------------------------
(* Bounds of the model. *)

\* listing requests one instance may issue in a behaviour
MaxRequests == 2
\* modal elements (and Escape listeners) one instance may hold at a time
MaxModals == 1
\* keydown listeners the document may hold at a time
MaxListeners == 2
\* vote requests one instance may send for one review
MaxVoteRequests == 2
\* largest number of pages handed to #generatePageNumbers
MaxTotalPages == 12
\* review submissions one instance may send in a behaviour
MaxSubmissions == 2

----------------------------------------------------------------------------
(* Small helpers. *)

Max(a, b) == IF a >= b THEN a ELSE b

\* Math.ceil(a / b) for a >= 0, b > 0
Ceil(a, b) == (a + b - 1) \div b

Range(s) == {s[i] : i \in DOMAIN s}

----------------------------------------------------------------------------
(* #renderStars: the numbers of filled, half and empty star glyphs emitted   *)
(* for a rating r given in hundredths.                                       *)

renderStars(r) ==
    LET fullStars == r \div 100
        rest      == r - 100 * fullStars
        hasHalf   == rest >= 30 /\ rest <= 70
        emptyStars == 5 - fullStars - (IF hasHalf THEN 1 ELSE 0)
                        - (IF rest > 70 THEN 1 ELSE 0)
        extraFull == IF rest > 70 THEN 1 ELSE 0
    IN  [filled |-> fullStars + extraFull,
         half   |-> IF hasHalf THEN 1 ELSE 0,
         empty  |-> Max(0, emptyStars - extraFull)]

----------------------------------------------------------------------------
(* #generatePageNumbers: the pagination window, a sequence of page numbers   *)
(* and ellipses.                                                             *)

\* the '...' entry of a window; page numbers are >= 1
Ellipsis == 0

generatePageNumbers_lateTail(cur, tot) ==
    IF tot <= 7 THEN [i \in 1..tot |-> i]
    ELSE IF cur <= 4 THEN <<1, 2, 3, 4, 5, Ellipsis, tot>>
    ELSE IF cur >= tot - 2 THEN <<1, Ellipsis, tot - 4, tot - 3, tot - 2, tot - 1, tot>>
    ELSE <<1, Ellipsis, cur - 1, cur, cur + 1, Ellipsis, tot>>

generatePageNumbers_shortList(cur, tot) ==
    IF tot <= 5 THEN [i \in 1..tot |-> i]
    ELSE IF cur <= 4 THEN <<1, 2, 3, 4, 5, Ellipsis, tot>>
    ELSE IF cur >= tot - 3 THEN <<1, Ellipsis, tot - 4, tot - 3, tot - 2, tot - 1, tot>>
    ELSE <<1, Ellipsis, cur - 1, cur, cur + 1, Ellipsis, tot>>

generatePageNumbers(cur, tot) ==
    IF tot <= 7 THEN [i \in 1..tot |-> i]
    ELSE IF cur <= 4 THEN <<1, 2, 3, 4, 5, Ellipsis, tot>>
    ELSE IF cur >= tot - 3 THEN <<1, Ellipsis, tot - 4, tot - 3, tot - 2, tot - 1, tot>>
    ELSE <<1, Ellipsis, cur - 1, cur, cur + 1, Ellipsis, tot>>

----------------------------------------------------------------------------
(* The component: constants of the class and of the modelled environment.   *)

\* #perPage
perPage == 10

\* the component elements of the page
Instances == {1, 2}

\* the review IDs the server knows
ReviewIds == {1, 2}

\* an attribute value that is present; "" is the getters' value for an absent one
SomeValue == "set"

AttrValues == {"", SomeValue}

\* the option values of the sort <select>, as the tokens around the '-' separator
SortOptions ==
    { <<"date", "-", "desc">>, <<"date", "-", "asc">>,
      <<"score", "-", "desc">>, <<"score", "-", "asc">>,
      <<"votes_up", "-", "desc">> }

\* the option values the modelled user picks
SortInputs == { <<"votes_up", "-", "desc">> }

\* the stars of the histogram rows
Stars == 1..5

\* the histogram rows the modelled user clicks
StarInputs == {5}
\* the stars of the form clicked
RatingInputs == {1, 5}

\* String.prototype.split on '-': the tokens between the separators
RECURSIVE split(_)
split(tokens) ==
    IF tokens = <<>> THEN <<>>
    ELSE IF Head(tokens) = "-" THEN split(Tail(tokens))
    ELSE <<Head(tokens)>> \o split(Tail(tokens))

\* a review record as the listing endpoint returns it; review 1 carries one image
Review(id) ==
    [id |-> id, votes_up |-> 0, votes_down |-> 0, images |-> IF id = 1 THEN 1 ELSE 0]

\* the bodies a listing response may carry: unparsable JSON, an embedded error
\* status, an envelope without a payload, and payloads with a total and a list
ListingBodies ==
    { [json |-> FALSE, status |-> 0,   payload |-> FALSE, total |-> 0, list |-> <<>>],
      [json |-> TRUE,  status |-> 500, payload |-> FALSE, total |-> 0, list |-> <<>>],
      [json |-> TRUE,  status |-> 0,   payload |-> FALSE, total |-> 0, list |-> <<>>],
      [json |-> TRUE,  status |-> 200, payload |-> TRUE,  total |-> 0, list |-> <<>>],
      [json |-> TRUE,  status |-> 200, payload |-> TRUE,  total |-> 15,
       list |-> <<Review(1), Review(2)>>],
      [json |-> TRUE,  status |-> 200, payload |-> TRUE,  total |-> 25,
       list |-> <<Review(2)>>] }

\* how the promise of fetch() settles for a request that was not aborted
FetchOutcomes == {"ok", "http_error", "network_error"}

\* the field initialisers of the class, for an element not yet connected
NewComponent ==
    [ connected         |-> FALSE,
      appKey            |-> SomeValue,
      productId         |-> SomeValue,
      abortController   |-> 0,          \* 0: null; i: the controller of request i
      requests          |-> <<>>,       \* the listing requests issued, in order
      bottomline        |-> <<>>,       \* <<>>: null
      reviews           |-> [from |-> 0, list |-> <<>>],
      pagination        |-> <<>>,       \* <<>>: null
      currentSort       |-> "date",
      currentDirection  |-> "desc",
      currentStarFilter |-> 0,          \* 0: null
      currentPage       |-> 1,
      isLoading         |-> FALSE,
      showForm          |-> FALSE,
      votedReviews      |-> <<>>,       \* a Set, in insertion order
      view              |-> [kind |-> "none", message |-> ""],  \* innerHTML
      modals            |-> 0,          \* modal elements appended to the component
      voteRequests      |-> [id \in ReviewIds |-> 0],  \* vote POSTs sent, per review
      voteResponses     |-> [id \in ReviewIds |-> 0],  \* vote POSTs settled, per review
      form              |-> <<>>,       \* the form element of the document, if any
      submissions       |-> <<>>,       \* the review POSTs issued, in order
      timers            |-> 0 ]         \* auto-hide timeouts set and not yet run

----------------------------------------------------------------------------
(* Rendering.  Assigning innerHTML drops every child, an open modal too.     *)

\* the form as #renderReviewForm writes it: no score, the message hidden, the
\* submit button enabled
NewForm == [score |-> 0, message |-> "", disabled |-> FALSE]

\* the elements a pending submitReview holds once innerHTML is assigned: they
\* are no longer in the document
detached(submissions) ==
    [i \in DOMAIN submissions |-> [submissions[i] EXCEPT !.attached = FALSE]]

\* #renderReviewsList: the message shown in place of the list, "" with the list
renderReviewsList(s) ==
    IF s.reviews.list = <<>> THEN "No reviews match your filter." ELSE ""

\* #renderContent: the message shown in place of the list, "" with the list
renderContent_filterIgnored(s) ==
    IF s.reviews.list = <<>>
    THEN "No reviews yet. Be the first to write a review!"
    ELSE renderReviewsList(s)

renderContent(s) ==
    IF s.reviews.list = <<>> /\ s.currentStarFilter = 0
    THEN "No reviews yet. Be the first to write a review!"
    ELSE renderReviewsList(s)

render(s) ==
    [s EXCEPT !.view = [kind |-> IF s.isLoading THEN "loading"
                                 ELSE IF s.showForm THEN "form" ELSE "content",
                        message |-> IF ~s.isLoading /\ ~s.showForm
                                    THEN renderContent(s) ELSE ""],
              !.modals = 0,
              !.form = IF ~s.isLoading /\ s.showForm THEN <<NewForm>> ELSE <<>>,
              !.submissions = detached(@)]

renderError(s, message) ==
    [s EXCEPT !.view = [kind |-> "error", message |-> message],
              !.modals = 0,
              !.form = <<>>,
              !.submissions = detached(@)]

----------------------------------------------------------------------------
(* The voted set and its local-storage entry.                                *)

\* new Set(array): the distinct elements, in order of first occurrence
RECURSIVE NewSet(_)
NewSet(array) ==
    IF array = <<>> THEN <<>>
    ELSE LET init == NewSet(SubSeq(array, 1, Len(array) - 1))
             last == array[Len(array)]
         IN  IF last \in Range(init) THEN init ELSE Append(init, last)

\* Set.prototype.add
SetAdd(set, x) == IF x \in Range(set) THEN set ELSE Append(set, x)

\* JSON.stringify([...set]): the text of an array
JSONstringify(set) == [array |-> TRUE, ids |-> set]

\* #loadVotedReviews; readOk: getItem did not throw
loadVotedReviews(s, entry, readOk) ==
    IF ~readOk THEN s                       \* getItem threw
    ELSE IF entry = <<>> THEN s             \* no entry: null is falsy
    ELSE IF ~entry[1].array /\ entry[1].ids = <<>>
         THEN s                             \* JSON.parse or new Set threw
    ELSE [s EXCEPT !.votedReviews = NewSet(entry[1].ids)]

\* #saveVotedReviews: the entry afterwards; writeOk: setItem did not throw
saveVotedReviews(s, entry, writeOk) ==
    IF writeOk THEN <<JSONstringify(s.votedReviews)>> ELSE entry

----------------------------------------------------------------------------
(* The fetch controller.                                                     *)

\* #buildApiUrl: the parameters of the listing URL (star 0: no star parameter)
buildApiUrl(s) ==
    [ appKey    |-> s.appKey,
      productId |-> s.productId,
      per_page  |-> perPage,
      page      |-> s.currentPage,
      sort      |-> s.currentSort,
      direction |-> s.currentDirection,
      star      |-> s.currentStarFilter ]

\* AbortController.abort() on the controller held, if any
abort_skipped(s) == s

abort(s) ==
    IF s.abortController = 0 THEN s
    ELSE [s EXCEPT !.requests[s.abortController].aborted = TRUE]

\* #fetchReviews up to its first await
fetchReviews_noGuard(s) ==
    LET a == abort(s)
        i == Len(a.requests) + 1
        b == [a EXCEPT !.abortController = i,
                       !.isLoading = TRUE]
        r == render(b)
    IN  [r EXCEPT !.requests =
            Append(@, [url |-> buildApiUrl(b), aborted |-> FALSE, at |-> "fetch"])]

fetchReviews(s) ==
    IF s.appKey = "" \/ s.productId = ""
    THEN renderError(s, "Missing app-key or product-id attribute")
    ELSE LET a == abort(s)
             i == Len(a.requests) + 1
             b == [a EXCEPT !.abortController = i,
                            !.isLoading = TRUE]
             r == render(b)
         IN  [r EXCEPT !.requests =
                 Append(@, [url |-> buildApiUrl(b), aborted |-> FALSE, at |-> "fetch"])]

\* whether a call of #fetchReviews stays within the bound on requests
CanFetch(s) == s.appKey = "" \/ s.productId = "" \/ Len(s.requests) < MaxRequests

\* the URL of a request that has settled: nothing holds it any more
NoUrl ==
    [ appKey |-> "", productId |-> "", per_page |-> 0, page |-> 0,
      sort |-> "", direction |-> "", star |-> 0 ]

\* a request once the call of #fetchReviews that issued it has ended in `how`
settled(request, how) == [request EXCEPT !.url = NoUrl, !.at = how]

\* the catch block of #fetchReviews for an error that is not an AbortError
fetchFailed(s, i, message) ==
    renderError([s EXCEPT !.requests[i] = settled(@, "failed"), !.isLoading = FALSE],
                message)

\* the catch block of #fetchReviews for an AbortError
fetchDropped(s, i) == [s EXCEPT !.requests[i] = settled(@, "dropped")]

\* #fetchReviews from the settling of fetch() to its second await
fetchSettled_abortIsError(s, i, outcome) ==
    IF s.requests[i].aborted \/ outcome = "network_error"
    THEN fetchFailed(s, i, "Failed to fetch")
    ELSE IF outcome = "http_error" THEN fetchFailed(s, i, "HTTP 500")
    ELSE [s EXCEPT !.requests[i].at = "json"]

fetchSettled(s, i, outcome) ==
    IF s.requests[i].aborted THEN fetchDropped(s, i)
    ELSE IF outcome = "network_error" THEN fetchFailed(s, i, "Failed to fetch")
    ELSE IF outcome = "http_error" THEN fetchFailed(s, i, "HTTP 500")
    ELSE [s EXCEPT !.requests[i].at = "json"]

\* #fetchReviews from the settling of response.json() to its end
jsonSettled_noAbortCheck(s, i, body) ==
    IF ~body.json THEN fetchFailed(s, i, "Unexpected token")
    ELSE IF body.status # 0 /\ body.status # 200 THEN fetchFailed(s, i, "API error: 500")
    ELSE render([s EXCEPT
            !.bottomline = IF body.payload
                           THEN <<[from |-> i, total_review |-> body.total]>> ELSE <<>>,
            !.reviews    = [from |-> i, list |-> IF body.payload THEN body.list ELSE <<>>],
            !.pagination = IF body.payload
                           THEN <<[from |-> i, total |-> body.total]>> ELSE <<>>,
            !.isLoading  = FALSE,
            !.requests[i] = settled(@, "applied")])

jsonSettled_listMerged(s, i, body) ==
    IF s.requests[i].aborted THEN fetchDropped(s, i)
    ELSE IF ~body.json THEN fetchFailed(s, i, "Unexpected token")
    ELSE IF body.status # 0 /\ body.status # 200 THEN fetchFailed(s, i, "API error: 500")
    ELSE render([s EXCEPT
            !.bottomline = IF body.payload
                           THEN <<[from |-> i, total_review |-> body.total]>> ELSE <<>>,
            !.reviews    = [from |-> i,
                            list |-> IF body.payload /\ Len(body.list) = Len(@.list)
                                     THEN @.list
                                     ELSE IF body.payload THEN body.list ELSE <<>>],
            !.pagination = IF body.payload
                           THEN <<[from |-> i, total |-> body.total]>> ELSE <<>>,
            !.isLoading  = FALSE,
            !.requests[i] = settled(@, "applied")])

jsonSettled(s, i, body) ==
    IF s.requests[i].aborted THEN fetchDropped(s, i)
    ELSE IF ~body.json THEN fetchFailed(s, i, "Unexpected token")
    ELSE IF body.status # 0 /\ body.status # 200 THEN fetchFailed(s, i, "API error: 500")
    ELSE render([s EXCEPT
            !.bottomline = IF body.payload
                           THEN <<[from |-> i, total_review |-> body.total]>> ELSE <<>>,
            !.reviews    = [from |-> i, list |-> IF body.payload THEN body.list ELSE <<>>],
            !.pagination = IF body.payload
                           THEN <<[from |-> i, total |-> body.total]>> ELSE <<>>,
            !.isLoading  = FALSE,
            !.requests[i] = settled(@, "applied")])

----------------------------------------------------------------------------
(* The dispatched user actions.                                              *)

\* retryFetch
retryFetch(s) == fetchReviews(s)

\* handleSort, for the value of the selected option
handleSort_keepPage(s, value) ==
    LET parts == split(value)
    IN  fetchReviews([s EXCEPT !.currentSort = parts[1],
                               !.currentDirection = parts[2]])

handleSort(s, value) ==
    LET parts == split(value)
    IN  fetchReviews([s EXCEPT !.currentSort = parts[1],
                               !.currentDirection = parts[2],
                               !.currentPage = 1])

\* filterByStar
filterByStar_noToggle(s, star) ==
    fetchReviews([s EXCEPT !.currentStarFilter = star,
                           !.currentPage = 1])

filterByStar(s, star) ==
    fetchReviews([s EXCEPT !.currentStarFilter = IF @ = star THEN 0 ELSE star,
                           !.currentPage = 1])

\* clearStarFilter
clearStarFilter(s) ==
    fetchReviews([s EXCEPT !.currentStarFilter = 0, !.currentPage = 1])

\* the totalPages of goToPage
totalPages(s) ==
    IF s.pagination # <<>> THEN Ceil(s.pagination[1].total, perPage) ELSE 1

\* goToPage
goToPage_noUpperLimit(s, page) ==
    IF page < 1 THEN s
    ELSE fetchReviews([s EXCEPT !.currentPage = page])

goToPage_noLowerLimit(s, page) ==
    IF page > totalPages(s) THEN s
    ELSE fetchReviews([s EXCEPT !.currentPage = page])

goToPage(s, page) ==
    IF page < 1 \/ page > totalPages(s) THEN s
    ELSE fetchReviews([s EXCEPT !.currentPage = page])

\* toggleForm
toggleForm(s) == render([s EXCEPT !.showForm = ~@])

\* setFormRating: the hidden score input takes the rating
setFormRating(s, score) ==
    IF s.form = <<>> THEN s ELSE [s EXCEPT !.form[1].score = score]

\* #showFormMessage: the message element of the document, if any, shows the text
showFormMessage(s, message) ==
    IF s.form = <<>> THEN s ELSE [s EXCEPT !.form[1].message = message]

\* submitReview up to its await, for a submit event of the form of the document;
\* a submission is at "fetch" until fetch() settles, then "failed", or
\* "succeeded" until its timeout has run ("hidden"); attached: the form it
\* submitted is still the form of the document
submitReview_noValidation(s) ==
    [s EXCEPT !.form[1].disabled = TRUE,
              !.submissions = Append(@, [at |-> "fetch", attached |-> TRUE])]

submitReview(s) ==
    IF s.form[1].score = 0
    THEN showFormMessage(s, "Please select a star rating")
    ELSE [s EXCEPT !.form[1].disabled = TRUE,
                   !.submissions = Append(@, [at |-> "fetch", attached |-> TRUE])]

\* the submit button submitReview i holds is enabled again; it is the button of
\* the document only if no innerHTML assignment has replaced it
enableSubmitBtn(s, i) ==
    IF s.submissions[i].attached THEN [s EXCEPT !.form[1].disabled = FALSE] ELSE s

\* submitReview i from the settling of fetch() to its end
submitSettled(s, i, outcome) ==
    IF outcome = "ok"
    THEN [showFormMessage(s, "Thank you! Your review has been submitted and is pending approval.")
             EXCEPT !.submissions[i].at = "succeeded",
                    !.timers = @ + 1]
    ELSE [enableSubmitBtn(showFormMessage(s, "Failed to submit review. Please try again."), i)
             EXCEPT !.submissions[i] = [at |-> "failed", attached |-> FALSE]]

\* the callback of the timeout set by the successful submitReview i
autoHide(s, i) ==
    render([s EXCEPT !.showForm = FALSE,
                     !.timers = @ - 1,
                     !.submissions[i].at = "hidden"])

\* Array.prototype.find by review id: the index of the first match, or 0
find(list, id) ==
    IF \E k \in DOMAIN list : list[k].id = id
    THEN CHOOSE k \in DOMAIN list :
            list[k].id = id /\ \A j \in 1..(k - 1) : list[j].id # id
    ELSE 0

\* voteHelpful, without its storage write: the component afterwards
voteHelpful(s, id, vote) ==
    IF id \in Range(s.votedReviews) THEN s
    ELSE LET k == find(s.reviews.list, id)
             a == [s EXCEPT !.votedReviews = SetAdd(@, id)]
             b == IF k = 0 THEN a
                  ELSE IF vote = "up"
                       THEN [a EXCEPT !.reviews.list[k].votes_up = @ + 1]
                       ELSE [a EXCEPT !.reviews.list[k].votes_down = @ + 1]
         IN  [render(b) EXCEPT !.voteRequests[id] = @ + 1]

\* voteHelpful from the settling of fetch() to its end: the response is not
\* read and the catch block is empty
voteSettled(s, id, outcome) == [s EXCEPT !.voteResponses[id] = @ + 1]

\* the storage write of voteHelpful: the entry afterwards
voteHelpfulSave(s, entry, id, writeOk) ==
    IF id \in Range(s.votedReviews) THEN entry
    ELSE saveVotedReviews([s EXCEPT !.votedReviews = SetAdd(@, id)], entry, writeOk)

\* whether openImageModal finds the image: the review is listed and has that image
hasImage(s, id, imageIndex) ==
    LET k == find(s.reviews.list, id)
    IN  k # 0 /\ imageIndex >= 0 /\ imageIndex < s.reviews.list[k].images

\* openImageModal, without its keydown listener: the component afterwards
openImageModal(s, id, imageIndex) ==
    IF ~hasImage(s, id, imageIndex) THEN s ELSE [s EXCEPT !.modals = @ + 1]

\* closeImageModal: the first modal element, if any, is removed
closeImageModal(s) == [s EXCEPT !.modals = Max(0, @ - 1)]

\* the keydown listeners of the document run in order; handleEscape of
\* instance c closes a modal of c
RECURSIVE dispatchKeydown(_, _, _)
dispatchKeydown(cs, listeners, key) ==
    IF listeners = <<>> THEN cs
    ELSE LET c == Head(listeners)
         IN  dispatchKeydown(
                 IF key = "Escape" THEN [cs EXCEPT ![c] = closeImageModal(@)] ELSE cs,
                 Tail(listeners), key)

\* the listeners left after the dispatch: handleEscape removes itself on Escape
listenersAfter(listeners, key) == IF key = "Escape" THEN <<>> ELSE listeners

----------------------------------------------------------------------------
(* The events.                                                               *)

Pure == <<rating, stars, current, total, pages>>

\* connectedCallback: the element is inserted into the document; reads: how
\* getItem may end (TRUE: it does not throw)
ConnectedCallbackWith_readUncaught(c, reads) ==
    /\ ~comp[c].connected
    /\ CanFetch(comp[c])
    /\ \E readOk \in reads :
         comp' = [comp EXCEPT ![c] =
                    IF readOk
                    THEN fetchReviews(loadVotedReviews([@ EXCEPT !.connected = TRUE],
                                                       storage, readOk))
                    ELSE [@ EXCEPT !.connected = TRUE]]
    /\ UNCHANGED <<storage, keydown, Pure>>

ConnectedCallbackWith(c, reads) ==
    /\ ~comp[c].connected
    /\ CanFetch(comp[c])
    /\ \E readOk \in reads :
         comp' = [comp EXCEPT ![c] =
                    fetchReviews(loadVotedReviews([@ EXCEPT !.connected = TRUE],
                                                  storage, readOk))]
    /\ UNCHANGED <<storage, keydown, Pure>>

ConnectedCallback(c) == ConnectedCallbackWith(c, BOOLEAN)

\* disconnectedCallback: the element is removed from the document
DisconnectedCallback(c) ==
    /\ comp[c].connected
    /\ comp' = [comp EXCEPT ![c] = abort([@ EXCEPT !.connected = FALSE])]
    /\ UNCHANGED <<storage, keydown, Pure>>

\* the host sets or removes the app-key attribute
SetAppKey(c) ==
    /\ \E v \in AttrValues : comp' = [comp EXCEPT ![c].appKey = v]
    /\ UNCHANGED <<storage, keydown, Pure>>

\* the host sets or removes the product-id attribute
SetProductId(c) ==
    /\ \E v \in AttrValues : comp' = [comp EXCEPT ![c].productId = v]
    /\ UNCHANGED <<storage, keydown, Pure>>

RetryFetch(c) ==
    /\ comp[c].connected
    /\ CanFetch(comp[c])
    /\ comp' = [comp EXCEPT ![c] = retryFetch(@)]
    /\ UNCHANGED <<storage, keydown, Pure>>

HandleSort(c) ==
    /\ comp[c].connected
    /\ CanFetch(comp[c])
    /\ \E value \in SortInputs : comp' = [comp EXCEPT ![c] = handleSort(@, value)]
    /\ UNCHANGED <<storage, keydown, Pure>>

FilterByStar(c) ==
    /\ comp[c].connected
    /\ CanFetch(comp[c])
    /\ \E star \in StarInputs : comp' = [comp EXCEPT ![c] = filterByStar(@, star)]
    /\ UNCHANGED <<storage, keydown, Pure>>

ClearStarFilter(c) ==
    /\ comp[c].connected
    /\ CanFetch(comp[c])
    /\ comp' = [comp EXCEPT ![c] = clearStarFilter(@)]
    /\ UNCHANGED <<storage, keydown, Pure>>

\* the pages a click can ask for: the previous and next page and the numbered ones
PageInputs(s) == 0..(Max(totalPages(s), s.currentPage) + 1)

GoToPage(c) ==
    /\ comp[c].connected
    /\ CanFetch(comp[c])
    /\ \E page \in PageInputs(comp[c]) : comp' = [comp EXCEPT ![c] = goToPage(@, page)]
    /\ UNCHANGED <<storage, keydown, Pure>>

\* the promise of fetch() of request i settles
FetchSettled(c) ==
    /\ \E i \in DOMAIN comp[c].requests :
         /\ comp[c].requests[i].at = "fetch"
         /\ \E outcome \in FetchOutcomes :
              comp' = [comp EXCEPT ![c] = fetchSettled(@, i, outcome)]
    /\ UNCHANGED <<storage, keydown, Pure>>

\* the promise of response.json() of request i settles
JsonSettled(c) ==
    /\ \E i \in DOMAIN comp[c].requests :
         /\ comp[c].requests[i].at = "json"
         /\ \E body \in ListingBodies :
              comp' = [comp EXCEPT ![c] = jsonSettled(@, i, body)]
    /\ UNCHANGED <<storage, keydown, Pure>>

\* a click on "Write a Review" or on "Cancel"
ToggleForm(c) ==
    /\ comp[c].connected
    /\ comp' = [comp EXCEPT ![c] = toggleForm(@)]
    /\ UNCHANGED <<storage, keydown, Pure>>

\* a click on a star of the form
SetFormRating(c) ==
    /\ comp[c].form # <<>>
    /\ \E score \in RatingInputs : comp' = [comp EXCEPT ![c] = setFormRating(@, score)]
    /\ UNCHANGED <<storage, keydown, Pure>>

\* the form of the document is submitted; a form whose submit button is
\* disabled cannot be
SubmitReview(c) ==
    /\ comp[c].form # <<>>
    /\ ~comp[c].form[1].disabled
    /\ comp[c].form[1].score = 0 \/ Len(comp[c].submissions) < MaxSubmissions
    /\ comp' = [comp EXCEPT ![c] = submitReview(@)]
    /\ UNCHANGED <<storage, keydown, Pure>>

\* the promise of fetch() of submission i settles
SubmitSettled(c) ==
    /\ \E i \in DOMAIN comp[c].submissions :
         /\ comp[c].submissions[i].at = "fetch"
         /\ \E outcome \in FetchOutcomes :
              comp' = [comp EXCEPT ![c] = submitSettled(@, i, outcome)]
    /\ UNCHANGED <<storage, keydown, Pure>>

\* an auto-hide timeout runs
AutoHide(c) ==
    /\ comp[c].timers > 0
    /\ \E i \in DOMAIN comp[c].submissions :
         /\ comp[c].submissions[i].at = "succeeded"
         /\ comp' = [comp EXCEPT ![c] = autoHide(@, i)]
    /\ UNCHANGED <<storage, keydown, Pure>>

\* a click on a vote button; writes: how setItem may end (TRUE: it does not throw)
VoteHelpfulWith(c, writes) ==
    /\ comp[c].connected
    /\ \E id \in ReviewIds, vote \in {"up", "down"}, writeOk \in writes :
         /\ id \in Range(comp[c].votedReviews)
              \/ comp[c].voteRequests[id] < MaxVoteRequests
         /\ comp' = [comp EXCEPT ![c] = voteHelpful(@, id, vote)]
         /\ storage' = voteHelpfulSave(comp[c], storage, id, writeOk)
    /\ UNCHANGED <<keydown, Pure>>

VoteHelpful(c) == VoteHelpfulWith(c, BOOLEAN)

\* the promise of fetch() of a vote request settles
VoteSettled(c) ==
    /\ \E id \in ReviewIds, outcome \in FetchOutcomes :
         /\ comp[c].voteResponses[id] < comp[c].voteRequests[id]
         /\ comp' = [comp EXCEPT ![c] = voteSettled(@, id, outcome)]
    /\ UNCHANGED <<storage, keydown, Pure>>

OpenImageModal(c) ==
    /\ comp[c].connected
    /\ comp[c].modals < MaxModals
    /\ Len(keydown) < MaxListeners
    /\ \E id \in ReviewIds, imageIndex \in 0..1 :
         /\ comp' = [comp EXCEPT ![c] = openImageModal(@, id, imageIndex)]
         /\ keydown' = IF hasImage(comp[c], id, imageIndex)
                       THEN Append(keydown, c) ELSE keydown
    /\ UNCHANGED <<storage, Pure>>

\* a click on the backdrop or on the close control of the modal
CloseImageModal(c) ==
    /\ comp[c].connected
    /\ comp' = [comp EXCEPT ![c] = closeImageModal(@)]
    /\ UNCHANGED <<storage, keydown, Pure>>

\* a key is pressed anywhere in the document
Keydown ==
    /\ \E key \in {"Escape", "Enter"} :
         /\ comp' = dispatchKeydown(comp, keydown, key)
         /\ keydown' = listenersAfter(keydown, key)
    /\ UNCHANGED <<storage, Pure>>

----------------------------------------------------------------------------
(* Spec: one component element and its fetch controller: the lifecycle       *)
(* callbacks, the host's attribute changes, sort, filter, page navigation,   *)
(* retry, and the settling of the listing requests.                          *)

\* a stored value that is not the JSON text of an array
Malformed == [array |-> FALSE, ids |-> <<>>]

\* what stands for a character in a voted set: never a review ID
Character == 0

\* a stored value that is the JSON text of a string: JSON.parse gives the
\* string and new Set() the set of its characters
MalformedString == [array |-> FALSE, ids |-> <<Character>>]

InitPure ==
    /\ rating = 0
    /\ stars = <<>>
    /\ current = 1
    /\ total = 1
    /\ pages = <<>>

Init ==
    /\ comp = [c \in Instances |-> NewComponent]
    /\ storage \in {<<>>, <<Malformed>>}
    /\ keydown = <<>>
    /\ InitPure

Next ==
    \E c \in {1} :
       \/ ConnectedCallback(c)
       \/ DisconnectedCallback(c)
       \/ SetAppKey(c)
       \/ SetProductId(c)
       \/ RetryFetch(c)
       \/ HandleSort(c)
       \/ FilterByStar(c)
       \/ ClearStarFilter(c)
       \/ GoToPage(c)
       \/ FetchSettled(c)
       \/ JsonSettled(c)

Spec == Init /\ [][Next]_vars

----------------------------------------------------------------------------
(* SpecVote: two component elements of one page, sharing the local-storage   *)
(* entry; both connect and vote.  The first element is also moved in the    *)
(* document and its listing requests settle; the second stays connected and  *)
(* its listing request stays pending.                                        *)

NextVote ==
    \/ \E c \in Instances :
         \/ ConnectedCallback(c)
         \/ VoteHelpful(c)
    \/ \E c \in {1} :
         \/ DisconnectedCallback(c)
         \/ FetchSettled(c)
         \/ JsonSettled(c)

SpecVote == Init /\ [][NextVote]_vars

----------------------------------------------------------------------------
(* SpecVoteStored: as SpecVote, with a local storage whose reads and writes  *)
(* never throw.                                                              *)

ConnectedCallbackStored(c) == ConnectedCallbackWith(c, {TRUE})

VoteHelpfulStored(c) == VoteHelpfulWith(c, {TRUE})

NextVoteStored ==
    \/ \E c \in Instances :
         \/ ConnectedCallbackStored(c)
         \/ VoteHelpfulStored(c)
    \/ \E c \in {1} :
         \/ DisconnectedCallback(c)
         \/ FetchSettled(c)
         \/ JsonSettled(c)

SpecVoteStored == Init /\ [][NextVoteStored]_vars

----------------------------------------------------------------------------
(* SpecVoteSettling: as SpecVoteStored, and the vote requests settle, in any *)
(* order and at any time, or stay pending.                                   *)

NextVoteSettling ==
    \/ \E c \in Instances :
         \/ ConnectedCallbackStored(c)
         \/ VoteHelpfulStored(c)
         \/ VoteSettled(c)
    \/ \E c \in {1} :
         \/ DisconnectedCallback(c)
         \/ FetchSettled(c)
         \/ JsonSettled(c)

SpecVoteSettling == Init /\ [][NextVoteSettling]_vars

----------------------------------------------------------------------------
(* SpecStartup: one component element started over a local-storage entry     *)
(* that is missing or is not the JSON text of an array, with a local storage *)
(* whose reads and writes may throw; it connects, fetches and votes.         *)

InitStartup ==
    /\ comp = [c \in Instances |-> NewComponent]
    /\ storage \in {<<>>, <<Malformed>>, <<MalformedString>>}
    /\ keydown = <<>>
    /\ InitPure

NextStartup ==
    \E c \in {1} :
       \/ ConnectedCallback(c)
       \/ VoteHelpful(c)
       \/ VoteSettled(c)
       \/ FetchSettled(c)
       \/ JsonSettled(c)

SpecStartup == InitStartup /\ [][NextStartup]_vars

----------------------------------------------------------------------------
(* SpecModal: one component element and its image lightbox.                  *)

NextModal ==
    \/ \E c \in {1} :
         \/ ConnectedCallback(c)
         \/ DisconnectedCallback(c)
         \/ FetchSettled(c)
         \/ JsonSettled(c)
         \/ OpenImageModal(c)
         \/ CloseImageModal(c)
    \/ Keydown

SpecModal == Init /\ [][NextModal]_vars

----------------------------------------------------------------------------
(* SpecFilter: one component element and its histogram: every row can be     *)
(* clicked, on any page, with or without the identifiers.                    *)

\* a click on one of the five rows of the histogram
FilterByAnyStar(c) ==
    /\ comp[c].connected
    /\ CanFetch(comp[c])
    /\ \E star \in Stars : comp' = [comp EXCEPT ![c] = filterByStar(@, star)]
    /\ UNCHANGED <<storage, keydown, Pure>>

NextFilter ==
    \E c \in {1} :
       \/ ConnectedCallback(c)
       \/ SetAppKey(c)
       \/ FilterByAnyStar(c)
       \/ GoToPage(c)
       \/ FetchSettled(c)
       \/ JsonSettled(c)

SpecFilter == Init /\ [][NextFilter]_vars

----------------------------------------------------------------------------
(* SpecForm: one component element and its review form: the form is opened   *)
(* and closed, rated and submitted, the submissions settle and the auto-hide *)
(* timeouts run, while the listing is fetched and filtered.                  *)

NextForm ==
    \E c \in {1} :
       \/ ConnectedCallback(c)
       \/ FilterByStar(c)
       \/ FetchSettled(c)
       \/ JsonSettled(c)
       \/ ToggleForm(c)
       \/ SetFormRating(c)
       \/ SubmitReview(c)
       \/ SubmitSettled(c)
       \/ AutoHide(c)

SpecForm == Init /\ [][NextForm]_vars

\* the timeouts of the browser run: a timeout set is not delayed for ever
SpecFormFair == SpecForm /\ WF_vars(AutoHide(1))

----------------------------------------------------------------------------
(* SpecStars: #renderStars on every rating of [0, 5] in hundredths.          *)

Component == <<comp, storage, keydown>>

InitComponent ==
    /\ comp = [c \in Instances |-> NewComponent]
    /\ storage = <<>>
    /\ keydown = <<>>

InitStars ==
    /\ InitComponent
    /\ rating \in 0..500
    /\ stars = <<>>
    /\ current = 1
    /\ total = 1
    /\ pages = <<>>

RenderStars ==
    /\ stars = <<>>
    /\ stars' = <<renderStars(rating)>>
    /\ UNCHANGED <<Component, rating, current, total, pages>>

NextStars == RenderStars

SpecStars == InitStars /\ [][NextStars]_vars

----------------------------------------------------------------------------
(* SpecPages: #generatePageNumbers on every page of every number of pages    *)
(* up to MaxTotalPages.                                                      *)

InitPages ==
    /\ InitComponent
    /\ rating = 0
    /\ stars = <<>>
    /\ total \in 1..MaxTotalPages
    /\ current \in 1..total
    /\ pages = <<>>

GeneratePageNumbers ==
    /\ pages = <<>>
    /\ pages' = <<generatePageNumbers(current, total)>>
    /\ UNCHANGED <<Component, rating, stars, current, total>>

NextPages == GeneratePageNumbers

SpecPages == InitPages /\ [][NextPages]_vars

----------------------------------------------------------------------------
(* The claims.                                                               *)

\* whether request i of s is in flight: issued, and its call of #fetchReviews
\* has not ended
InFlight(s, i) == s.requests[i].at \in {"fetch", "json"}

\* the requests whose responses the summary, review list and pagination hold
DataFrom(s) ==
    {s.reviews.from} \cup {b.from : b \in Range(s.bottomline)}
                     \cup {p.from : p \in Range(s.pagination)}

\* C1: of overlapping listing fetches only the response of the one issued last
\* is applied: a step after which the summary, the review list or the
\* pagination come from another response than before has set all of them from
\* the request issued most recently, never from an earlier one, in whichever
\* order the responses arrive.
C1_OnlyLatestResponseApplied ==
    [][\A c \in Instances :
          DataFrom(comp'[c]) # DataFrom(comp[c])
             => DataFrom(comp'[c]) = {Len(comp[c].requests)}]_vars

\* C1 witness: the second fetch was issued while the first was in flight, the
\* second response has been applied and the first, cancelled, is still to arrive.
C1_Witness ==
    /\ Len(comp[1].requests) = 2
    /\ InFlight(comp[1], 1)
    /\ comp[1].requests[1].aborted
    /\ comp[1].requests[2].at = "applied"
    /\ DataFrom(comp[1]) = {2}

\* C2 (as stated): whenever pagination data exists,
\* 1 <= currentPage <= ceil(pagination.total / perPage).
C2_PageWithinTotal ==
    \A c \in Instances :
       comp[c].pagination # <<>>
          => /\ comp[c].currentPage >= 1
             /\ comp[c].currentPage <= Ceil(comp[c].pagination[1].total, perPage)

\* C2 (amended): currentPage >= 1 always, and a step that changes currentPage
\* sets it to 1 or to a page of 1..totalPages, totalPages being computed from the
\* pagination held before the step (1 when there is none).
C2_PageSetWithinKnownTotal ==
    /\ [](\A c \in Instances : comp[c].currentPage >= 1)
    /\ [][\A c \in Instances :
            comp'[c].currentPage # comp[c].currentPage
               => \/ comp'[c].currentPage = 1
                  \/ comp'[c].currentPage \in 1..totalPages(comp[c])]_vars

\* C2 witness: goToPage has moved to a later page, and a response with a
\* smaller total has then left currentPage above ceil(total / perPage).
C2_Witness ==
    /\ comp[1].currentPage = 2
    /\ comp[1].pagination # <<>>
    /\ comp[1].pagination[1].from = 2
    /\ Ceil(comp[1].pagination[1].total, perPage) < 2

\* C3: for every rating of [0, 5] the filled, half and empty stars emitted sum
\* to 5, a half star is emitted iff the fractional part lies in [0.3, 0.7], and
\* a fractional part above 0.7 gives floor+1 filled stars, no half star and
\* 5-(floor+1) empty stars.
C3_StarsSumToFive ==
    stars # <<>> =>
       LET out  == stars[1]
           full == rating \div 100
           rest == rating - 100 * full
       IN  /\ out.filled + out.half + out.empty = 5
           /\ out.half = 1 <=> (rest >= 30 /\ rest <= 70)
           /\ rest > 70 => /\ out.filled = full + 1
                           /\ out.half = 0
                           /\ out.empty = 5 - (full + 1)

\* C4: a vote on a review already in the voted set is a no-op, so that an
\* element sends at most one vote request per review ID.
C4_OneVoteRequestPerReview ==
    \A c \in Instances : \A id \in ReviewIds : comp[c].voteRequests[id] <= 1

\* C5: the in-memory voted set never shrinks: after every step it is a superset
\* of what it was before.
C5_VotedSetNeverShrinks ==
    [][\A c \in Instances :
          Range(comp[c].votedReviews) \subseteq Range(comp'[c].votedReviews)]_vars

\* the review IDs of the persisted entry
PersistedIds ==
    IF storage = <<>> THEN {}
    ELSE IF ~storage[1].array THEN {}
    ELSE Range(storage[1].ids)

\* C6: the persisted entry contains every review ID any element sharing it has
\* voted on, so that a later session or another element rejects a vote on it.
C6_PersistedHoldsEveryVote ==
    \A c \in Instances : Range(comp[c].votedReviews) \subseteq PersistedIds

\* a step of element c that calls #fetchReviews
Refetch(c) ==
    \/ ConnectedCallback(c)
    \/ RetryFetch(c)
    \/ HandleSort(c)
    \/ FilterByStar(c)
    \/ ClearStarFilter(c)
    \/ GoToPage(c) /\ comp'[c].currentPage # comp[c].currentPage

\* C7: every call of refetch cancels a still-pending prior listing request:
\* after it no request issued before it is in flight and not cancelled,
\* whatever the application key and product identifier are.
C7_RefetchCancelsPending ==
    [][\A c \in Instances :
          Refetch(c) =>
             \A i \in DOMAIN comp[c].requests :
                InFlight(comp'[c], i) => comp'[c].requests[i].aborted]_vars

\* the listing requests of s in flight and not cancelled
Live(s) == {i \in DOMAIN s.requests : InFlight(s, i) /\ ~s.requests[i].aborted}

\* C8: at most one listing fetch is in flight and not cancelled, and the step
\* that starts a new listing fetch cancels the previous ones.
C8_OneLiveFetch ==
    /\ [](\A c \in Instances : Cardinality(Live(comp[c])) <= 1)
    /\ [][\A c \in Instances :
            Len(comp'[c].requests) > Len(comp[c].requests)
               => Live(comp'[c]) = {Len(comp'[c].requests)}]_vars

\* C8 witness: two listing fetches in flight, the first cancelled by the start
\* of the second.
C8_Witness ==
    /\ Len(comp[1].requests) = 2
    /\ InFlight(comp[1], 1)
    /\ InFlight(comp[1], 2)
    /\ Live(comp[1]) = {2}

\* C9: whenever no lightbox is open no Escape handler is installed on the
\* document, and at most one is installed at any time.
C9_EscapeHandlerTornDown ==
    /\ (\A c \in Instances : comp[c].modals = 0) => keydown = <<>>
    /\ Len(keydown) <= 1

\* consecutive page numbers a..b
Pages(a, b) == [i \in 1..(b - a + 1) |-> a + i - 1]

\* the window the specification gives for page cur of tot pages
Window(cur, tot) ==
    CASE tot <= 7 -> Pages(1, tot)
      [] tot > 7 /\ cur <= 4 -> Pages(1, 5) \o <<Ellipsis, tot>>
      [] tot > 7 /\ cur > 4 /\ cur >= tot - 3 -> <<1, Ellipsis>> \o Pages(tot - 4, tot)
      [] OTHER -> <<1, Ellipsis>> \o Pages(cur - 1, cur + 1) \o <<Ellipsis, tot>>

\* C10: for 1 <= current <= totalPages the pagination window is the one the
\* specification gives; for 10 pages, page 1 gives [1,2,3,4,5,...,10], page 9
\* gives [1,...,6,7,8,9,10] and page 5 gives [1,...,4,5,6,...,10].
C10_WindowAsSpecified ==
    pages # <<>> =>
       /\ pages[1] = Window(current, total)
       /\ total = 10 /\ current = 1 => pages[1] = <<1, 2, 3, 4, 5, Ellipsis, 10>>
       /\ total = 10 /\ current = 9 => pages[1] = <<1, Ellipsis, 6, 7, 8, 9, 10>>
       /\ total = 10 /\ current = 5 => pages[1] = <<1, Ellipsis, 4, 5, 6, Ellipsis, 10>>

\* C10 witness: the window of page 7 of 10, the first page within 3 of the end.
C10_Witness ==
    /\ pages = << <<1, Ellipsis, 6, 7, 8, 9, 10>> >>
    /\ current = 7
    /\ total = 10

\* C11: for every star s of 1..5 and every prior filter f (absent or 1..5), a
\* click on row s leaves the filter absent if f = s and equal to s otherwise,
\* and currentPage = 1 in both cases; the filter is always absent or an integer
\* of 1..5.
C11_StarToggle ==
    /\ [](\A c \in Instances : comp[c].currentStarFilter \in {0} \cup Stars)
    /\ [][\A c \in Instances : \A s \in Stars :
            FilterByAnyStar(c) /\ comp'[c] = filterByStar(comp[c], s)
               => /\ comp'[c].currentStarFilter =
                        (IF comp[c].currentStarFilter = s THEN 0 ELSE s)
                  /\ comp'[c].currentPage = 1]_vars

\* C11 witness: on page 2 a row was clicked while its star was the active
\* filter: the filter is absent again and the page is 1.  The request in flight
\* still carries page 2 and the star.
C11_Witness ==
    /\ comp[1].connected
    /\ comp[1].appKey = ""
    /\ comp[1].currentStarFilter = 0
    /\ comp[1].currentPage = 1
    /\ comp[1].view.kind = "error"
    /\ \E i \in DOMAIN comp[1].requests :
          /\ comp[1].requests[i].url.page = 2
          /\ comp[1].requests[i].url.star \in Stars

\* the step of element c has left sort, direction and star filter as given and
\* currentPage at 1
Selected(c, sort, direction, star) ==
    /\ comp'[c].currentSort = sort
    /\ comp'[c].currentDirection = direction
    /\ comp'[c].currentStarFilter = star
    /\ comp'[c].currentPage = 1

\* the step of element c has issued one listing request, for page 1 of the
\* given sort, direction and star filter
Issued(c, sort, direction, star) ==
    /\ Len(comp'[c].requests) = Len(comp[c].requests) + 1
    /\ LET q == comp'[c].requests[Len(comp'[c].requests)]
       IN  /\ q.at = "fetch"
           /\ ~q.aborted
           /\ q.url.sort = sort
           /\ q.url.direction = direction
           /\ q.url.star = star
           /\ q.url.page = 1

\* the application key and the product identifier are both present
Configured(s) == s.appKey # "" /\ s.productId # ""

\* C12 (as stated): every sort change, star toggle and filter clear, from any
\* page, sets currentPage to 1 and issues a listing request that carries the new
\* sort, direction and star filter and page 1.
C12_ControlsRefetchPageOne ==
    [][\A c \in Instances :
          /\ \A value \in SortInputs :
                HandleSort(c) /\ comp'[c] = handleSort(comp[c], value)
                   => /\ Selected(c, split(value)[1], split(value)[2],
                                  comp[c].currentStarFilter)
                      /\ Issued(c, split(value)[1], split(value)[2],
                                comp[c].currentStarFilter)
          /\ \A star \in StarInputs :
                FilterByStar(c) /\ comp'[c] = filterByStar(comp[c], star)
                   => LET f == IF comp[c].currentStarFilter = star THEN 0 ELSE star
                      IN  /\ Selected(c, comp[c].currentSort,
                                      comp[c].currentDirection, f)
                          /\ Issued(c, comp[c].currentSort,
                                    comp[c].currentDirection, f)
          /\ ClearStarFilter(c)
                => /\ Selected(c, comp[c].currentSort, comp[c].currentDirection, 0)
                   /\ Issued(c, comp[c].currentSort, comp[c].currentDirection, 0)]_vars

\* C12 (amended): every sort change, star toggle and filter clear, from any
\* page, sets currentPage to 1 and leaves the new sort, direction and star
\* filter selected; when the application key and the product identifier are
\* present it issues a listing request that carries them and page 1, and when
\* one of them is absent it issues no request.
C12_ControlsRefetchWhenConfigured ==
    [][\A c \in Instances :
          /\ \A value \in SortInputs :
                HandleSort(c) /\ comp'[c] = handleSort(comp[c], value)
                   => /\ Selected(c, split(value)[1], split(value)[2],
                                  comp[c].currentStarFilter)
                      /\ IF Configured(comp[c])
                         THEN Issued(c, split(value)[1], split(value)[2],
                                     comp[c].currentStarFilter)
                         ELSE comp'[c].requests = comp[c].requests
          /\ \A star \in StarInputs :
                FilterByStar(c) /\ comp'[c] = filterByStar(comp[c], star)
                   => LET f == IF comp[c].currentStarFilter = star THEN 0 ELSE star
                      IN  /\ Selected(c, comp[c].currentSort,
                                      comp[c].currentDirection, f)
                          /\ IF Configured(comp[c])
                             THEN Issued(c, comp[c].currentSort,
                                         comp[c].currentDirection, f)
                             ELSE comp'[c].requests = comp[c].requests
          /\ ClearStarFilter(c)
                => /\ Selected(c, comp[c].currentSort, comp[c].currentDirection, 0)
                   /\ IF Configured(comp[c])
                      THEN Issued(c, comp[c].currentSort, comp[c].currentDirection, 0)
                      ELSE comp'[c].requests = comp[c].requests]_vars

\* C12 witness: after the list of the first response, the sort was changed to
\* "most helpful" with the 5-star filter active: the second request is for
\* page 1 of that sort and filter.
C12_Witness ==
    /\ Len(comp[1].requests) = 2
    /\ comp[1].requests[1].at = "applied"
    /\ comp[1].requests[2].at = "fetch"
    /\ comp[1].requests[2].url.sort = "votes_up"
    /\ comp[1].requests[2].url.direction = "desc"
    /\ comp[1].requests[2].url.star = 5
    /\ comp[1].requests[2].url.page = 1
    /\ comp[1].currentPage = 1
    /\ comp[1].view.kind = "loading"

\* C13: goToPage(p) with p < 1 or p > totalPages (ceil(total / perPage) of the
\* pagination held, 1 when there is none) changes nothing: currentPage, the
\* loading flag, the view and every other field stay as they were, no listing
\* request is issued and none is cancelled.
C13_PageOutsideRangeIsNoOp ==
    [][\A c \in Instances : \A page \in PageInputs(comp[c]) :
          /\ GoToPage(c)
          /\ comp'[c] = goToPage(comp[c], page)
          /\ \/ page < 1
             \/ page > (IF comp[c].pagination = <<>> THEN 1
                        ELSE Ceil(comp[c].pagination[1].total, perPage))
          => /\ comp'[c] = comp[c]
             /\ storage' = storage
             /\ keydown' = keydown]_vars

\* C13 witness: the third and last page is shown, the request for it is still
\* pending, and a click can ask for page 4 (or page 0).
C13_Witness ==
    /\ comp[1].connected
    /\ CanFetch(comp[1])
    /\ comp[1].pagination # <<>>
    /\ totalPages(comp[1]) = 3
    /\ comp[1].currentPage = 3
    /\ Live(comp[1]) = {2}
    /\ 4 \in PageInputs(comp[1])

\* C14: a refetch made while the application key or the product identifier is
\* absent ends with the error view shown and issues no listing request.
C14_MissingIdentifiersShortCircuit ==
    [][\A c \in Instances :
          Refetch(c) /\ ~Configured(comp[c])
             => /\ comp'[c].view.kind = "error"
                /\ comp'[c].view.message = "Missing app-key or product-id attribute"
                /\ comp'[c].requests = comp[c].requests]_vars

\* C14 witness: the element is connected without its application key, shows
\* the configuration error and has issued no request.
C14_Witness ==
    /\ comp[1].connected
    /\ comp[1].appKey = ""
    /\ comp[1].requests = <<>>
    /\ comp[1].view = [kind |-> "error",
                       message |-> "Missing app-key or product-id attribute"]

\* the sort, direction, star filter and page of a listing URL
Query(url) == <<url.sort, url.direction, url.star, url.page>>

\* C15: when the current listing fetch fails for a reason other than
\* cancellation, the loading flag is cleared and the error view with its retry
\* action is shown, and retry then issues a listing request with the sort,
\* direction, star filter and page of the failed one: at the failure the fields
\* retry reads are those of the failed request, and retry issues a request that
\* carries the fields.  No listing request is issued by a step that is not a
\* user action or a connect.
C15_FailureShowsRetryOfSameQuery ==
    /\ [][\A c \in Instances : \A i \in DOMAIN comp[c].requests :
            InFlight(comp[c], i) /\ comp'[c].requests[i].at = "failed"
               => /\ ~comp'[c].isLoading
                  /\ comp'[c].view.kind = "error"
                  /\ Query(buildApiUrl(comp'[c])) = Query(comp[c].requests[i].url)]_vars
    /\ [][\A c \in Instances :
            RetryFetch(c) /\ Configured(comp[c])
               => /\ Len(comp'[c].requests) = Len(comp[c].requests) + 1
                  /\ Query(comp'[c].requests[Len(comp'[c].requests)].url)
                        = Query(buildApiUrl(comp[c]))]_vars
    /\ [][\A c \in Instances :
            Len(comp'[c].requests) > Len(comp[c].requests) => Refetch(c)]_vars

\* C16: submitting the form while no rating is selected issues no review
\* request, shows the validation message, and leaves the form open with its
\* submit button enabled.
C16_NoRatingNoRequest ==
    [][\A c \in Instances :
          SubmitReview(c) /\ comp[c].form[1].score = 0
             => /\ comp'[c].submissions = comp[c].submissions
                /\ comp'[c].showForm
                /\ comp'[c].form # <<>>
                /\ comp'[c].form[1].message = "Please select a star rating"
                /\ ~comp'[c].form[1].disabled]_vars

\* C16 witness: the form shows the validation message, no rating is selected
\* and no review request has been issued.
C16_Witness ==
    /\ comp[1].showForm
    /\ comp[1].form = <<[score |-> 0, message |-> "Please select a star rating",
                         disabled |-> FALSE]>>
    /\ comp[1].submissions = <<>>

\* C17: when a review submission succeeds the confirmation message is shown,
\* and once the delay has elapsed the form is hidden: every state with an
\* auto-hide pending is followed by one in which showForm is false.
C17_SuccessConfirmedThenHidden ==
    /\ [][\A c \in Instances : \A i \in DOMAIN comp[c].submissions :
            comp[c].submissions[i].at = "fetch" /\ comp'[c].submissions[i].at = "succeeded"
               => /\ comp'[c].form # <<>>
                  /\ comp'[c].form[1].message =
                        "Thank you! Your review has been submitted and is pending approval."]_vars
    /\ \A c \in Instances : (comp[c].timers > 0) ~> ~comp[c].showForm

\* C18: when a review submission fails (network error or non-OK status) the
\* inline error message is shown, showForm stays true, no auto-hide is
\* scheduled and the submit button is enabled again, so that the form can be
\* submitted once more.
C18_FailureShownFormStaysOpen ==
    [][\A c \in Instances : \A i \in DOMAIN comp[c].submissions :
          comp[c].submissions[i].at = "fetch" /\ comp'[c].submissions[i].at = "failed"
             => /\ comp'[c].showForm
                /\ comp'[c].timers = comp[c].timers
                /\ comp'[c].form # <<>>
                /\ comp'[c].form[1].message = "Failed to submit review. Please try again."
                /\ ~comp'[c].form[1].disabled]_vars

\* C19: whenever the content area is rendered (not loading, form hidden) with
\* an empty review list, it shows "No reviews yet" and not the "Clear filter"
\* message if no star filter is active, and the "No reviews match your filter"
\* message with "Clear filter" and not "No reviews yet" if one is.
C19_EmptyListMessage ==
    \A c \in Instances :
       /\ comp[c].view.kind = "content"
       /\ ~comp[c].isLoading
       /\ ~comp[c].showForm
       /\ comp[c].reviews.list = <<>>
       => IF comp[c].currentStarFilter = 0
          THEN comp[c].view.message = "No reviews yet. Be the first to write a review!"
          ELSE comp[c].view.message = "No reviews match your filter."

\* C19 witness: the response to the request for the 5-star reviews holds no
\* review, and the content area shows the message with "Clear filter".
C19_Witness ==
    /\ comp[1].view = [kind |-> "content", message |-> "No reviews match your filter."]
    /\ comp[1].currentStarFilter = 5
    /\ comp[1].reviews = [from |-> 2, list |-> <<>>]
    /\ comp[1].requests[1].at = "applied"

\* the votes the list of s counts for review id, 0 if it is not listed
Votes(s, id) ==
    LET k == find(s.reviews.list, id)
    IN  IF k = 0 THEN 0 ELSE s.reviews.list[k].votes_up + s.reviews.list[k].votes_down

\* C20: when the vote request of an accepted vote is issued, the review ID is
\* in the voted set, the persisted entry has been rewritten with the set and
\* the counter of the listed review has been incremented, and no error view is
\* shown; whatever becomes of the request, the ID stays in the voted set, and
\* the settling of the request changes neither the voted set nor the list nor
\* the view.
C20_VoteOptimisticAndKept ==
    /\ [][\A c \in Instances : \A id \in ReviewIds :
            comp'[c].voteRequests[id] > comp[c].voteRequests[id]
               => /\ id \in Range(comp'[c].votedReviews)
                  /\ storage' = <<JSONstringify(comp'[c].votedReviews)>>
                  /\ find(comp[c].reviews.list, id) # 0
                        => Votes(comp'[c], id) = Votes(comp[c], id) + 1
                  /\ comp'[c].view.kind # "error"]_vars
    /\ [][\A c \in Instances : \A id \in ReviewIds :
            comp[c].voteRequests[id] > 0 /\ id \in Range(comp[c].votedReviews)
               => id \in Range(comp'[c].votedReviews)]_vars
    /\ [][\A c \in Instances :
            VoteSettled(c)
               => /\ comp'[c].votedReviews = comp[c].votedReviews
                  /\ comp'[c].reviews = comp[c].reviews
                  /\ comp'[c].view = comp[c].view]_vars

\* C21: a successful listing fetch replaces the summary, the review list and
\* the pagination in one step and clears the loading flag: in every state the
\* three come from the same response or are all initial, and the step that
\* applies a response leaves exactly what the response carries, nothing of the
\* list held before, optimistic vote counts included.
C21_ReplacedTogether ==
    /\ [](\A c \in Instances :
            /\ \A b \in Range(comp[c].bottomline) : b.from = comp[c].reviews.from
            /\ \A q \in Range(comp[c].pagination) : q.from = comp[c].reviews.from
            /\ comp[c].reviews.from = 0
                  => /\ comp[c].reviews.list = <<>>
                     /\ comp[c].bottomline = <<>>
                     /\ comp[c].pagination = <<>>)
    /\ [][\A c \in Instances :
            comp'[c].reviews.from # comp[c].reviews.from
               => /\ ~comp'[c].isLoading
                  /\ \E body \in ListingBodies :
                       LET i == comp'[c].reviews.from
                       IN  /\ body.json
                           /\ body.status \in {0, 200}
                           /\ comp'[c].reviews.list =
                                 (IF body.payload THEN body.list ELSE <<>>)
                           /\ comp'[c].bottomline =
                                 (IF body.payload
                                  THEN <<[from |-> i, total_review |-> body.total]>>
                                  ELSE <<>>)
                           /\ comp'[c].pagination =
                                 (IF body.payload
                                  THEN <<[from |-> i, total |-> body.total]>>
                                  ELSE <<>>)]_vars

\* C21 witness: review 2 was voted on, and the list now held is the one of the
\* second response, with the vote counts the response carries.
C21_Witness ==
    /\ comp[1].reviews = [from |-> 2, list |-> <<Review(2)>>]
    /\ comp[1].requests[1].at = "applied"
    /\ 2 \in Range(comp[1].votedReviews)
    /\ comp[1].voteRequests[2] = 1
    /\ ~comp[1].isLoading

\* C22: the completion of a cancelled listing fetch (superseded by a newer one
\* or aborted by disconnect) is dropped: the step in which it ends changes
\* neither the view nor the loading flag nor the summary, the review list or
\* the pagination.
C22_CancelledFetchDropped ==
    [][\A c \in Instances : \A i \in DOMAIN comp[c].requests :
          /\ comp[c].requests[i].aborted
          /\ InFlight(comp[c], i)
          /\ ~InFlight(comp'[c], i)
          => /\ comp'[c].requests[i].at = "dropped"
             /\ comp'[c].view = comp[c].view
             /\ comp'[c].isLoading = comp[c].isLoading
             /\ comp'[c].bottomline = comp[c].bottomline
             /\ comp'[c].reviews = comp[c].reviews
             /\ comp'[c].pagination = comp[c].pagination]_vars

\* C22 witness: the first request, superseded by the second, has ended while
\* the second is still pending and the loading view is shown.
C22_Witness ==
    /\ Len(comp[1].requests) = 2
    /\ comp[1].requests[1].at = "dropped"
    /\ comp[1].requests[2].at = "fetch"
    /\ ~comp[1].requests[2].aborted
    /\ comp[1].isLoading
    /\ comp[1].view.kind = "loading"

\* the first connection of element c, over an entry that is missing or is not
\* the JSON text of an array
Startup(c) ==
    /\ ConnectedCallback(c)
    /\ comp[c] = NewComponent
    /\ storage = <<>> \/ ~storage[1].array

\* the step is a vote of element c on review id, accepted, whose storage write
\* threw
VoteUnsaved(c, id) ==
    /\ VoteHelpful(c)
    /\ id \notin Range(comp[c].votedReviews)
    /\ \E vote \in {"up", "down"} : comp'[c] = voteHelpful(comp[c], id, vote)
    /\ storage' = storage

\* the optimistic update and the request of a vote of element c on review id
VoteDone(c, id) ==
    /\ id \in Range(comp'[c].votedReviews)
    /\ find(comp[c].reviews.list, id) # 0
          => Votes(comp'[c], id) = Votes(comp[c], id) + 1
    /\ comp'[c].voteRequests[id] = comp[c].voteRequests[id] + 1

C24_LoadingIffFetchPending ==
    \A c \in Instances : comp[c].isLoading <=> Live(comp[c]) # {}

\* C25: whenever the review list is displayed (content view, loading flag
\* false, form hidden) the review list and the pagination held are the response
\* to the listing request issued last, the one built from the current sort,
\* direction, star filter and page; in particular the list is not displayed
\* once that request has failed.
C25_DisplayedListIsCurrent ==
    \A c \in Instances :
       /\ comp[c].view.kind = "content"
       /\ ~comp[c].isLoading
       /\ ~comp[c].showForm
       => /\ comp[c].requests # <<>>
          /\ comp[c].requests[Len(comp[c].requests)].at = "applied"
          /\ DataFrom(comp[c]) = {Len(comp[c].requests)}

\* C26: for 1 <= current <= totalPages the pagination window contains the
\* current page, begins with 1 and ends with totalPages, lists its page numbers
\* in strictly increasing order, each within 1..totalPages, has at most 7
\* entries, and each of its ellipses stands between two page numbers that leave
\* out at least one page.
C26_WindowWellFormed ==
    pages # <<>> =>
       LET w == pages[1]
       IN  /\ \E k \in DOMAIN w : w[k] = current
           /\ w[1] = 1
           /\ w[Len(w)] = total
           /\ \A j, k \in DOMAIN w :
                 j < k /\ w[j] # Ellipsis /\ w[k] # Ellipsis => w[j] < w[k]
           /\ \A k \in DOMAIN w : w[k] # Ellipsis => w[k] \in 1..total
           /\ Len(w) <= 7
           /\ \A k \in DOMAIN w :
                 w[k] = Ellipsis
                    => /\ 1 < k /\ k < Len(w)
                       /\ w[k - 1] # Ellipsis
                       /\ w[k + 1] # Ellipsis
                       /\ w[k + 1] - w[k - 1] >= 2

\* C26 witness: the window of page 5 of 9, with an ellipsis on either side.
C26_Witness ==
    /\ pages = << <<1, Ellipsis, 4, 5, 6, Ellipsis, 9>> >>
    /\ current = 5
    /\ total = 9

\* the auto-hide timeouts of s that are pending for the form of the document
PendingForOpenForm(s) ==
    {i \in DOMAIN s.submissions :
        s.submissions[i].at = "succeeded" /\ s.submissions[i].attached}

\* C27: the auto-hide set by a successful submission closes only the form that
\* was submitted: when it runs while another form is shown, opened after the
\* submitted one was hidden, showForm stays true; and at most one auto-hide is
\* pending for the form shown.
C27_AutoHideClosesOnlySubmittedForm ==
    /\ [](\A c \in Instances : Cardinality(PendingForOpenForm(comp[c])) <= 1)
    /\ [][\A c \in Instances : \A i \in DOMAIN comp[c].submissions :
            /\ comp[c].submissions[i].at = "succeeded"
            /\ comp'[c].submissions[i].at = "hidden"
            /\ ~comp[c].submissions[i].attached
            /\ comp[c].form # <<>>
            => comp'[c].showForm]_vars

====
